---- MODULE Spec2Model ----
(***************************************************************************)
(* Domain resolution and default selection of the Cloud Foundry CLI's      *)
(* CloudControllerDomainRepository, and the `domains` command ListDomains   *)
(* that lists an organization's domains (cf/api/domains.go).                *)
(*                                                                          *)
(* One call runs at a time (the code is synchronous).  Its only            *)
(* blocking step is the page fetch of gateway.ListPaginatedResources, so   *)
(* each action below is either the start of a call, one iteration of the   *)
(* page loop (fetch one page, hand its items to the callback, then run the *)
(* caller's code up to the next fetch or to its return), or the return to  *)
(* the caller.  The server's pages are the environment: the content of a   *)
(* page, whether another page follows and whether the fetch fails are      *)
(* chosen when the page is requested.                                       *)
(***************************************************************************)
EXTENDS Naturals, Sequences, FiniteSets

\* ------------------------------------------------------------------ bounds
\* pages a collection may have
MaxPages == 2
\* items on one page
MaxPageLen == 2
\* items the server streams, over all pages requested by one call
MaxItems == 3

\* ------------------------------------------------------------- value sets
DomainNames == {"a", "b"}
OrgGuids == {"org1"}
RouterGroupGuids == {"", "rg1"}
TransportErrors == {"network failure", "decode failure"}

\* name == nil in FirstOrDefault(orgGuid, name *string)
NilName == "<nil>"

\* models.DomainFields, the fields this code reads
DomainFields == [Name : DomainNames, Shared : BOOLEAN, RouterGroupGuid : RouterGroupGuids]

\* The domains a listing is streamed.  The repository calls never read
\* RouterGroupGuid; the listing does, and is given two router groups to refer to.
ListedRouterGroupGuids == RouterGroupGuids \cup {"rg2"}

ListedDomainFields == [Name : DomainNames, Shared : BOOLEAN, RouterGroupGuid : ListedRouterGroupGuids]

\* The domains a direct ListDomainsForOrg is streamed: neither it nor the
\* caller's callback reads RouterGroupGuid, so one value of it is streamed.
WalkedDomainFields == [Name : DomainNames, Shared : BOOLEAN, RouterGroupGuid : {""}]

\* models.RouterGroup, the fields this code reads
RouterGroups == [Guid : {"rg1", "rg2"}, Type : {"tcp", "http"}]

\* models.DomainFields{}
ZeroDomain == [Name |-> "", Shared |-> FALSE, RouterGroupGuid |-> ""]

\* ------------------------------------------------------------------ errors
NoError == [kind |-> "nil", entity |-> "", id |-> ""]

NewModelNotFoundError(entity, id) == [kind |-> "ModelNotFoundError", entity |-> entity, id |-> id]

\* an error of the gateway (GetResource failed, or the page did not decode)
TransportError(e) == [kind |-> "TransportError", entity |-> "", id |-> e]

NoDefaultDomainError == [kind |-> "Error", entity |-> "", id |-> "Could not find a default domain"]

\* ---------------------------------------------------------------- locators
\* repo.strategy.*URL: the collection a walk reads
OrgDomainURL(orgGuid, name) == [url |-> "OrgDomainURL", org |-> orgGuid, name |-> name]

SharedDomainURL(name) == [url |-> "SharedDomainURL", org |-> "", name |-> name]

PrivateDomainURL(name) == [url |-> "PrivateDomainURL", org |-> "", name |-> name]

PrivateDomainsByOrgURL(orgGuid) == [url |-> "PrivateDomainsByOrgURL", org |-> orgGuid, name |-> ""]

SharedDomainsURL == [url |-> "SharedDomainsURL", org |-> "", name |-> ""]

NoPath == [url |-> "", org |-> "", name |-> ""]

VARIABLES
    pc,          \* "idle", "walking" (a page loop is running), "done"
    op,          \* the repository method called
    name,        \* its name argument (NilName: none)
    orgGuid,     \* its orgGuid argument
    path,        \* ListPaginatedResources: the collection being walked
    pageNo,      \* ListPaginatedResources: the page the loop requests next
    foundDomain, \* findOneWithPath's flag; defaultDomain's pointer is not nil
    domain,      \* findOneWithPath's domain; what defaultDomain's pointer holds
    result,      \* what the call returned: [domain, err]
    requests,    \* history: the page requests of a repository call, in order
    delivered,   \* history: the items handed to its callback, in order
    budget,      \* items the server may still stream in this call
    domains,               \* getDomains: the domains collected
    populateRouterGroups,  \* getDomains: a shared domain names a router group
    routerGroups,          \* getRouterGroups: routerGroupsMap, guid -> group
    ui,                    \* what the command has written, in order
    cmdErr,                \* Execute: the error of getDomains, then of getRouterGroups
    exit,                  \* how Execute ended: "", "returned", "panicked"
    routingApi,            \* history: the requirement's run: "untouched", "ok", "missing"
    fetchOrder,            \* history: the collections asked for a page, in order, repeats merged
    groupFetches,          \* history: page requests for router groups
    run,                   \* 0, or which of two invocations on unchanged collections
    backing,               \* what the first of the two was served, to serve it again
    firstRun               \* what the first of the two wrote and how it ended

\* What only the command writes besides its collector's locals.
cmdVars == <<routerGroups, ui, cmdErr, exit, routingApi, groupFetches>>

vars == <<pc, op, name, orgGuid, path, pageNo, foundDomain, domain, result, requests, delivered, budget,
          domains, populateRouterGroups, routerGroups, ui, cmdErr, exit, routingApi, fetchOrder,
          groupFetches, run, backing, firstRun>>

\* Two invocations in a row.
twiceVars == <<run, backing, firstRun>>

\* Nothing served yet.
NoBacking ==
    [PrivateDomainsByOrgURL |-> <<>>, SharedDomainsURL |-> <<>>, RouterGroups |-> <<>>,
     api |-> TRUE, failAt |-> "", err |-> ""]

NoOutcome == [ui |-> <<>>, exit |-> ""]

\* ------------------------------------------------------- callbacks (pure)
\* The locals a callback closes over.
Locals(f, d) == [foundDomain |-> f, domain |-> d]

\* Mutant: findOneWithPath's callback returns true.
FindOneContinueAlways(item) == TRUE

\* findOneWithPath's callback returns false: stop at the first item.
FindOneContinue(item) == FALSE

\* Mutant: findOneWithPath's callback takes every item and goes on.
FindOneCbTakesAll(st, item) == [st |-> Locals(TRUE, item), cont |-> TRUE]

\* findOneWithPath's callback.
FindOneCb(st, item) == [st |-> Locals(TRUE, item), cont |-> FindOneContinue(item)]

\* Mutant: defaultDomain's callback returns domain.Shared.
DefaultDomainContinueIfShared(item) == item.Shared

\* defaultDomain's callback returns !domain.Shared.
DefaultDomainContinue(item) == ~item.Shared

\* Mutant: defaultDomain's callback keeps the first candidate it recorded.
DefaultDomainCbKeepFirst(st, item) ==
    [st |-> IF st.foundDomain THEN st ELSE Locals(TRUE, item), cont |-> DefaultDomainContinue(item)]

\* defaultDomain's callback.
DefaultDomainCb(st, item) == [st |-> Locals(TRUE, item), cont |-> DefaultDomainContinue(item)]

\* The locals getDomains' callback closes over.
CollectorLocals(ds, p) == [domains |-> ds, populateRouterGroups |-> p]

\* Mutant: any domain that names a router group asks for the router groups.
PopulatesRouterGroupsUnshared(d) == d.RouterGroupGuid # ""

\* getDomains: `if domain.Shared && domain.RouterGroupGuid != ""`
PopulatesRouterGroups(d) == d.Shared /\ d.RouterGroupGuid # ""

\* getDomains' callback: collect, note a router group reference, go on.
GetDomainsCb(st, item) ==
    [st |-> CollectorLocals(Append(st.domains, item),
                            st.populateRouterGroups \/ PopulatesRouterGroups(item)),
     cont |-> TRUE]

\* A caller's callback to ListDomainsForOrg: it looks for the domain named n
\* and returns false when it is handed one; with no name it returns true.
StopAtNameCb(n, st, item) == [st |-> Locals(TRUE, item), cont |-> item.Name # n]

\* The callback a call passes to listDomains.
Callback(o, n, st, item) ==
    IF o = "ListDomains" THEN GetDomainsCb(st, item)
    ELSE IF o = "ListDomainsForOrg" THEN StopAtNameCb(n, st, item)
    ELSE IF o = "FirstOrDefault" /\ n = NilName THEN DefaultDomainCb(st, item) ELSE FindOneCb(st, item)

\* ListPaginatedResources, the loop over one page's items: each item goes to
\* the callback until the callback returns false.
RECURSIVE DeliverPage(_, _, _, _)
DeliverPage(o, n, st, items) ==
    IF items = <<>>
    THEN [st |-> st, cont |-> TRUE, seen |-> <<>>]
    ELSE LET r == Callback(o, n, st, Head(items))
         IN  IF r.cont
             THEN LET rest == DeliverPage(o, n, r.st, Tail(items))
                  IN  [st |-> rest.st, cont |-> rest.cont, seen |-> <<Head(items)>> \o rest.seen]
             ELSE [st |-> r.st, cont |-> FALSE, seen |-> <<Head(items)>>]

\* --------------------------------------------------- returns (pure)
Returned(d, e) == [domain |-> d, err |-> e]

\* Mutant: findOneWithPath does not turn "nothing found" into an error.
FindOneWithPathRetNoNotFound(walkErr, st, n) ==
    IF walkErr # NoError THEN Returned(ZeroDomain, walkErr) ELSE Returned(st.domain, NoError)

\* findOneWithPath after the walk: not found becomes an error, any error
\* returns the zero domain.
FindOneWithPathRet(walkErr, st, n) ==
    LET err == IF walkErr = NoError /\ ~st.foundDomain
               THEN NewModelNotFoundError("Domain", n)
               ELSE walkErr
    IN  IF err # NoError THEN Returned(ZeroDomain, err) ELSE Returned(st.domain, NoError)

\* Mutant: FindByNameInOrg asks the shared collection whatever the first lookup returned.
FallsBackAlways(err) == TRUE

\* FindByNameInOrg: `switch err.(type) { case *errors.ModelNotFoundError:`
FallsBackToShared(err) == err.kind = "ModelNotFoundError"

\* Mutant: the cross-check is left out.
SharedCrossCheckSkipped(r, n) == r

\* Mutant: the cross-check tests domain.Shared instead of !domain.Shared.
SharedCrossCheckInverted(r, n) ==
    IF r.domain.Shared THEN Returned(r.domain, NewModelNotFoundError("Domain", n)) ELSE r

\* FindByNameInOrg: `if !domain.Shared { err = NewModelNotFoundError }` on
\* what FindSharedByName returned.
SharedCrossCheck(r, n) ==
    IF ~r.domain.Shared THEN Returned(r.domain, NewModelNotFoundError("Domain", n)) ELSE r

\* Mutant: the domain at hand is returned along with the error.
ZeroOnErrorKeepsDomain(r) == r

\* `if err != nil { return models.DomainFields{}, err }; return domain, nil`
ZeroOnError(r) == IF r.err # NoError THEN Returned(ZeroDomain, r.err) ELSE Returned(r.domain, NoError)

\* FirstOrDefault's own return, around what defaultDomain or FindByNameInOrg returned.
FirstOrDefaultRet(o, r) == IF o = "FirstOrDefault" THEN ZeroOnError(r) ELSE r

\* Mutant: defaultDomain returns its candidate without the nil check.
DefaultDomainRetUnchecked(st) == Returned(st.domain, NoError)

\* defaultDomain after ListDomainsForOrg, whose error it drops.
DefaultDomainRet(st) ==
    IF ~st.foundDomain THEN Returned(ZeroDomain, NoDefaultDomainError) ELSE Returned(st.domain, NoError)

\* Mutant: getDomains returns what it collected along with the error.
GetDomainsRetKeepsDomains(walkErr, st) ==
    [domains |-> st.domains, populateRouterGroups |-> st.populateRouterGroups, err |-> walkErr]

\* getDomains' return: on an error the collected domains are dropped.
GetDomainsRet(walkErr, st) ==
    IF walkErr # NoError
    THEN [domains |-> <<>>, populateRouterGroups |-> FALSE, err |-> walkErr]
    ELSE [domains |-> st.domains, populateRouterGroups |-> st.populateRouterGroups, err |-> NoError]

\* ------------------------------------------- router groups and the table (pure)
\* map[string]models.RouterGroup{}
EmptyMap == [g \in {} |-> [Guid |-> "", Type |-> ""]]

\* Mutant: the callback keeps the first router group it is handed under a guid.
GetRouterGroupsCbKeepsFirst(m, rg) == [g \in DOMAIN m \cup {rg.Guid} |-> IF g \in DOMAIN m THEN m[g] ELSE rg]

\* getRouterGroups' callback: `routerGroupsMap[routerGroup.Guid] = routerGroup`
GetRouterGroupsCb(m, rg) == [g \in DOMAIN m \cup {rg.Guid} |-> IF g = rg.Guid THEN rg ELSE m[g]]

\* The callback over one page of router groups; it always returns true.
RECURSIVE IndexPage(_, _)
IndexPage(m, groups) ==
    IF groups = <<>> THEN m ELSE IndexPage(GetRouterGroupsCb(m, Head(groups)), Tail(groups))

\* `routerGroups[guid].Type`: a missing key reads as the zero RouterGroup.
TypeOf(m, guid) == IF guid \in DOMAIN m THEN m[guid].Type ELSE ""

\* Mutant: the validation reports the references from the last domain backwards.
InvalidRouterGroupGuidsLastFirst(ds, m) ==
    LET bad == SelectSeq(ds, LAMBDA d : d.Shared /\ d.RouterGroupGuid # "" /\ d.RouterGroupGuid \notin DOMAIN m)
    IN  [i \in 1..Len(bad) |-> bad[Len(bad) + 1 - i].RouterGroupGuid]

\* Execute's validation: `domain.Shared && domain.RouterGroupGuid != ""` and
\* `_, ok := routerGroups[domain.RouterGroupGuid]; !ok`, over domains in order.
InvalidRouterGroupGuids(ds, m) ==
    LET bad == SelectSeq(ds, LAMBDA d : d.Shared /\ d.RouterGroupGuid # "" /\ d.RouterGroupGuid \notin DOMAIN m)
    IN  [i \in 1..Len(bad) |-> bad[i].RouterGroupGuid]

\* What the command writes.
Out(k, t, a, rs) == [kind |-> k, text |-> t, arg |-> a, rows |-> rs]

Say(t) == Out("Say", t, "", <<>>)

\* ui.Failed(message): the message is written and the command is abandoned.
Failed(t, a) == Out("Failed", t, a, <<>>)

\* table.Print() of a table with the headers name, status, type.
Table(rs) == Out("Table", "name status type", "", rs)

\* Mutant: a shared domain's row never has a type.
SharedRowUntyped(d, m) == <<d.Name, "shared">>

\* printDomainsTable, the row of a shared domain.
SharedRow(d, m) ==
    IF d.RouterGroupGuid # ""
    THEN <<d.Name, "shared", TypeOf(m, d.RouterGroupGuid)>>
    ELSE <<d.Name, "shared">>

\* printDomainsTable, the row of a domain that is not shared.
OwnedRow(d) == <<d.Name, "owned">>

\* printDomainsTable, first loop: the shared domains in collection order.
SharedRows(ds, m) ==
    LET sh == SelectSeq(ds, LAMBDA d : d.Shared)
    IN  [i \in 1..Len(sh) |-> SharedRow(sh[i], m)]

\* printDomainsTable, second loop: the other domains in collection order.
OwnedRows(ds) ==
    LET ow == SelectSeq(ds, LAMBDA d : ~d.Shared)
    IN  [i \in 1..Len(ow) |-> OwnedRow(ow[i])]

\* Mutant: one loop, the rows in collection order.
PrintDomainsTableInOneLoop(ds, m) ==
    Table([i \in 1..Len(ds) |-> IF ds[i].Shared THEN SharedRow(ds[i], m) ELSE OwnedRow(ds[i])])

PrintDomainsTable(ds, m) == Table(SharedRows(ds, m) \o OwnedRows(ds))

\* ------------------------------------------------------------------- state
Init ==
    /\ pc = "idle"
    /\ op = "none"
    /\ name = NilName
    /\ orgGuid = ""
    /\ path = NoPath
    /\ pageNo = 0
    /\ foundDomain = FALSE
    /\ domain = ZeroDomain
    /\ result = Returned(ZeroDomain, NoError)
    /\ requests = <<>>
    /\ delivered = <<>>
    /\ budget = MaxItems
    /\ domains = <<>>
    /\ populateRouterGroups = FALSE
    /\ routerGroups = EmptyMap
    /\ ui = <<>>
    /\ cmdErr = NoError
    /\ exit = ""
    /\ routingApi = "untouched"
    /\ fetchOrder = <<>>
    /\ groupFetches = 0
    /\ run = 0
    /\ backing = NoBacking
    /\ firstRun = NoOutcome

\* A call starts: its first walk is set up, nothing is requested yet.
Begin(o, n, g, p) ==
    /\ pc = "idle"
    /\ pc' = "walking"
    /\ op' = o
    /\ name' = n
    /\ orgGuid' = g
    /\ path' = p
    /\ pageNo' = 1
    /\ foundDomain' = FALSE
    /\ domain' = ZeroDomain
    /\ UNCHANGED <<result, requests, delivered, budget, domains, populateRouterGroups, fetchOrder>>
    /\ UNCHANGED cmdVars
    /\ UNCHANGED twiceVars

FindSharedByName(n) == Begin("FindSharedByName", n, "", SharedDomainURL(n))

FindPrivateByName(n) == Begin("FindPrivateByName", n, "", PrivateDomainURL(n))

FindByNameInOrg(n, g) == Begin("FindByNameInOrg", n, g, OrgDomainURL(g, n))

\* ListDomainsForOrg called with a callback of the caller's.
ListDomainsForOrg(g, n) == Begin("ListDomainsForOrg", n, g, PrivateDomainsByOrgURL(g))

FirstOrDefault(g, n) ==
    IF n = NilName
    THEN Begin("FirstOrDefault", n, g, PrivateDomainsByOrgURL(g))
    ELSE Begin("FirstOrDefault", n, g, OrgDomainURL(g, n))

\* Mutant: getDomains goes on with the slice and the flag it finds.
StaleCollector(ds, p) == CollectorLocals(ds, p)

\* getDomains: `domains := []models.DomainFields{}; populateRouterGroups := false`,
\* whatever an earlier invocation left behind.
NewCollector(ds, p) == CollectorLocals(<<>>, FALSE)

\* ListDomains.Execute up to getDomains' first page request.
ExecuteStarts(g) ==
    /\ pc' = "walking"
    /\ op' = "ListDomains"
    /\ orgGuid' = g
    /\ path' = PrivateDomainsByOrgURL(g)
    /\ pageNo' = 1
    /\ domains' = NewCollector(domains, populateRouterGroups).domains
    /\ populateRouterGroups' = NewCollector(domains, populateRouterGroups).populateRouterGroups
    /\ ui' = <<Say("Getting domains in org")>>
    /\ UNCHANGED <<name, foundDomain, domain, result, requests, delivered, routerGroups, cmdErr>>

\* The command is invoked.
Execute(g) ==
    /\ pc = "idle"
    /\ ExecuteStarts(g)
    /\ UNCHANGED <<budget, exit, routingApi, groupFetches, fetchOrder>>
    /\ UNCHANGED twiceVars

\* The command is invoked, and what the servers stream to it is kept.
ExecuteRecorded(g) ==
    /\ pc = "idle"
    /\ ExecuteStarts(g)
    /\ run' = 1
    /\ UNCHANGED <<budget, backing, firstRun, exit, routingApi, groupFetches, fetchOrder>>

\* What an invocation that is to be repeated may be streamed.
TwiceItems == MaxItems - 1

\* The command is invoked, to be invoked again on the same collections.
ExecuteFirst(g) ==
    /\ pc = "idle"
    /\ ExecuteStarts(g)
    /\ run' = 1
    /\ budget' = TwiceItems
    /\ UNCHANGED <<backing, firstRun, exit, routingApi, groupFetches, fetchOrder>>

\* The command is invoked again, on the same command object; the servers
\* answer as before.
ExecuteAgain ==
    /\ pc = "done"
    /\ op = "ListDomains"
    /\ run = 1
    /\ ExecuteStarts(orgGuid)
    /\ run' = 2
    /\ firstRun' = [ui |-> ui, exit |-> exit]
    /\ budget' = TwiceItems
    /\ exit' = ""
    /\ routingApi' = "untouched"
    /\ groupFetches' = 0
    /\ fetchOrder' = <<>>
    /\ UNCHANGED backing

\* The first of two invocations is served items of collection u.
Record(u, items) == IF run = 1 THEN [backing EXCEPT ![u] = @ \o items] ELSE backing

\* The first of two invocations sees a page fetch of collection u fail.
RecordFailure(u, e) == IF run = 1 THEN [backing EXCEPT !.failAt = u, !.err = e] ELSE backing

\* The second of two invocations is served what the first was: the items of
\* u in one page, and as the next page the failure if the first met one.
Replays(u, page, items, more) ==
    run = 2 => (page = 1 /\ items = backing[u] /\ more = (backing.failAt = u))

ReplaysFailure(u, page, e) ==
    run = 2 => (page = 2 /\ backing.failAt = u /\ backing.err = e)

\* The locals of the running call's callback.
CallLocals ==
    IF op = "ListDomains"
    THEN CollectorLocals(domains, populateRouterGroups)
    ELSE Locals(foundDomain, domain)

\* The callback's locals become st.
SetLocals(st) ==
    IF op = "ListDomains"
    THEN /\ domains' = st.domains
         /\ populateRouterGroups' = st.populateRouterGroups
         /\ UNCHANGED <<foundDomain, domain>>
    ELSE /\ foundDomain' = st.foundDomain
         /\ domain' = st.domain
         /\ UNCHANGED <<domains, populateRouterGroups>>

\* The call returns r.
Finish(r, st) ==
    /\ pc' = "done"
    /\ result' = r
    /\ SetLocals(st)
    /\ UNCHANGED <<path, pageNo>>

\* The next walk of the same call starts, with the locals st.
StartWalk(p, st) ==
    /\ pc' = "walking"
    /\ path' = p
    /\ pageNo' = 1
    /\ SetLocals(st)
    /\ UNCHANGED result

\* Execute ends with the output outs.
Ends(outs, how) ==
    /\ pc' = "done"
    /\ ui' = ui \o outs
    /\ exit' = how

\* Mutant: the test for an empty listing is left out.
NoDomainsUnchecked(ds) == FALSE

\* Execute: `if len(domains) == 0`
NoDomains(ds) == Len(ds) = 0

\* Mutant: ui.Failed returns, and Execute runs on to its test for no domains.
AfterGetDomainsFailedReturns(r) ==
    IF r.err # NoError
    THEN Ends(<<Failed("Failed fetching domains.", r.err.id), Say("No domains found")>>, "returned")
    ELSE IF NoDomains(r.domains)
         THEN Ends(<<Say("No domains found")>>, "returned")
         ELSE IF r.populateRouterGroups
              THEN pc' = "requirement" /\ UNCHANGED <<ui, exit>>
              ELSE Ends(<<PrintDomainsTable(r.domains, EmptyMap)>>, "returned")

\* Execute from getDomains' return on, up to the routing API requirement.
AfterGetDomains(r) ==
    IF r.err # NoError
    THEN Ends(<<Failed("Failed fetching domains.", r.err.id)>>, "panicked")
    ELSE IF NoDomains(r.domains)
         THEN Ends(<<Say("No domains found")>>, "returned")
         ELSE IF r.populateRouterGroups
              THEN pc' = "requirement" /\ UNCHANGED <<ui, exit>>
              ELSE Ends(<<PrintDomainsTable(r.domains, EmptyMap)>>, "returned")

\* ListDomainsForOrg and getDomains from the return of a listDomains on.
ListDomainsAfter(walkErr, st) ==
    IF path.url = "PrivateDomainsByOrgURL" /\ walkErr = NoError
    THEN StartWalk(SharedDomainsURL, st) /\ UNCHANGED cmdVars
    ELSE LET r == GetDomainsRet(walkErr, st)
         IN  /\ SetLocals(CollectorLocals(r.domains, r.populateRouterGroups))
             /\ cmdErr' = r.err
             /\ AfterGetDomains(r)
             /\ UNCHANGED <<path, pageNo, result, routerGroups, routingApi, groupFetches>>

\* FindByNameInOrg from the return of a findOneWithPath on.
FindByNameInOrgAfter(walkErr, st) ==
    LET r == FindOneWithPathRet(walkErr, st, name)
    IN  IF path.url = "OrgDomainURL"
        THEN IF FallsBackToShared(r.err)
             THEN StartWalk(SharedDomainURL(name), Locals(FALSE, ZeroDomain))
             ELSE Finish(FirstOrDefaultRet(op, ZeroOnError(r)), st)
        ELSE Finish(FirstOrDefaultRet(op, ZeroOnError(SharedCrossCheck(r, name))), st)

\* ListDomainsForOrg and defaultDomain from the return of a listDomains on.
DefaultDomainAfter(walkErr, st) ==
    IF path.url = "PrivateDomainsByOrgURL" /\ walkErr = NoError
    THEN StartWalk(SharedDomainsURL, st)
    ELSE Finish(FirstOrDefaultRet(op, DefaultDomainRet(st)), st)

\* Mutant: ListDomainsForOrg walks the shared collection whatever the first walk returned.
PrivateWalkFailedUnchecked(walkErr) == FALSE

\* ListDomainsForOrg: `if err != nil { return err }` after the private walk.
PrivateWalkFailed(walkErr) == walkErr # NoError

\* ListDomainsForOrg from the return of a listDomains on; it returns an error only.
ListDomainsForOrgAfter(walkErr, st) ==
    IF path.url = "PrivateDomainsByOrgURL" /\ ~PrivateWalkFailed(walkErr)
    THEN StartWalk(SharedDomainsURL, st)
    ELSE Finish(Returned(ZeroDomain, walkErr), st)

\* The walk of `path` returned walkErr: the caller's code runs on.
WalkReturns(walkErr, st) ==
    IF op = "ListDomains"
    THEN ListDomainsAfter(walkErr, st)
    ELSE /\ UNCHANGED cmdVars
         /\ IF op = "ListDomainsForOrg"
            THEN ListDomainsForOrgAfter(walkErr, st)
            ELSE IF op \in {"FindSharedByName", "FindPrivateByName"}
            THEN Finish(FindOneWithPathRet(walkErr, st, name), st)
            ELSE IF op = "FirstOrDefault" /\ name = NilName
                 THEN DefaultDomainAfter(walkErr, st)
                 ELSE FindByNameInOrgAfter(walkErr, st)

\* The pages the server may answer with.
RECURSIVE SeqsUpTo(_, _)
SeqsUpTo(S, n) ==
    IF n = 0 THEN {<<>>}
    ELSE LET shorter == SeqsUpTo(S, n - 1)
         IN  shorter \cup {Append(s, x) : s \in {t \in shorter : Len(t) = n - 1}, x \in S}

Min(a, b) == IF a < b THEN a ELSE b

Pages ==
    IF run = 2
    THEN IF pc = "walking" THEN {backing[path.url]} ELSE {}
    ELSE SeqsUpTo(IF op = "ListDomains" THEN ListedDomainFields
                  ELSE IF op = "ListDomainsForOrg" THEN WalkedDomainFields
                  ELSE DomainFields, Min(MaxPageLen, budget))

RouterGroupPages ==
    IF run = 2
    THEN IF pc = "routerGroups" THEN {backing.RouterGroups} ELSE {}
    ELSE SeqsUpTo(RouterGroups, Min(MaxPageLen, budget))

Tagged(items) == [i \in 1..Len(items) |-> [url |-> path.url, item |-> items[i]]]

\* The collection u is asked for a page.
Noted(u) ==
    IF fetchOrder # <<>> /\ fetchOrder[Len(fetchOrder)] = u THEN fetchOrder ELSE Append(fetchOrder, u)

\* The request log of a repository call.  A listing keeps what it was streamed
\* in `domains`, and the order of its fetches in `fetchOrder`.
Logged(r) == IF op = "ListDomains" THEN requests ELSE Append(requests, r)

\* ListPaginatedResources, one iteration whose fetch succeeds.
FetchPageOk(items, more) ==
    /\ pc = "walking"
    /\ more => pageNo < MaxPages
    /\ Replays(path.url, pageNo, items, more)
    /\ backing' = Record(path.url, items)
    /\ fetchOrder' = Noted(path.url)
    /\ LET r == DeliverPage(op, name, CallLocals, items)
       IN  /\ requests' = Logged([path |-> path, page |-> pageNo, items |-> items, more |-> more, err |-> NoError])
           /\ delivered' = IF op = "ListDomains" THEN delivered ELSE delivered \o Tagged(r.seen)
           /\ budget' = budget - Len(items)
           /\ IF r.cont /\ more
              THEN /\ pageNo' = pageNo + 1
                   /\ SetLocals(r.st)
                   /\ UNCHANGED <<pc, path, result>>
                   /\ UNCHANGED cmdVars
              ELSE WalkReturns(NoError, r.st)
    /\ UNCHANGED <<op, name, orgGuid, run, firstRun>>

\* ListPaginatedResources, one iteration whose fetch fails.
FetchPageErr(e) ==
    /\ pc = "walking"
    /\ ReplaysFailure(path.url, pageNo, e)
    /\ backing' = RecordFailure(path.url, e)
    /\ requests' = Logged([path |-> path, page |-> pageNo, items |-> <<>>, more |-> FALSE, err |-> TransportError(e)])
    /\ fetchOrder' = Noted(path.url)
    /\ WalkReturns(TransportError(e), CallLocals)
    /\ UNCHANGED <<op, name, orgGuid, delivered, budget, run, firstRun>>

\* Mutant: the requirement lets the command go on without the routing API.
RequirementFailsNever(ok) == FALSE

\* Requirement.Execute(): without a routing API endpoint it calls ui.Failed.
RequirementFails(ok) == ~ok

\* cmd.rountingApiRequirement.Execute(): a requirement that is not met fails
\* the command; one that is met lets getRouterGroups start.
RoutingApiRequirement(ok) ==
    /\ pc = "requirement"
    /\ run = 2 => ok = backing.api
    /\ backing' = IF run = 1 THEN [backing EXCEPT !.api = ok] ELSE backing
    /\ routingApi' = IF ok THEN "ok" ELSE "missing"
    /\ IF ~RequirementFails(ok)
       THEN /\ pc' = "routerGroups"
            /\ pageNo' = 1
            /\ routerGroups' = EmptyMap
            /\ UNCHANGED <<ui, exit>>
       ELSE /\ Ends(<<Failed("Routing API URI missing.", "")>>, "panicked")
            /\ UNCHANGED <<pageNo, routerGroups>>
    /\ UNCHANGED <<op, name, orgGuid, path, foundDomain, domain, result, requests, delivered, budget>>
    /\ UNCHANGED <<domains, populateRouterGroups, cmdErr, groupFetches, fetchOrder, run, firstRun>>

\* getRouterGroups' return: on an error an empty map.
GetRouterGroupsRet(walkErr, m) ==
    IF walkErr # NoError
    THEN [routerGroups |-> EmptyMap, err |-> walkErr]
    ELSE [routerGroups |-> m, err |-> NoError]

\* Mutant: Execute does not look at getRouterGroups' error.
RouterGroupsFailedUnchecked(e) == FALSE

\* Execute: `routerGroups, err = cmd.getRouterGroups(); if err != nil`
RouterGroupsFailed(e) == e # NoError

\* Mutant: with the router groups at hand Execute turns to the domains again.
AfterGetRouterGroupsWalkAgain(r) == pc' = "walking" /\ UNCHANGED <<routerGroups, cmdErr, ui, exit>>

\* Execute from getRouterGroups' return on: validation, then the table.
AfterGetRouterGroups(r) ==
    /\ routerGroups' = r.routerGroups
    /\ cmdErr' = r.err
    /\ IF RouterGroupsFailed(r.err)
       THEN Ends(<<Failed("Failed fetching router groups.", r.err.id)>>, "panicked")
       ELSE LET bad == InvalidRouterGroupGuids(domains, r.routerGroups)
            IN  IF bad # <<>>
                THEN Ends(<<Failed("Invalid router group guid:", Head(bad))>>, "panicked")
                ELSE Ends(<<PrintDomainsTable(domains, r.routerGroups)>>, "returned")

\* ListRouterGroups, one page that arrives.
FetchRouterGroupsOk(groups, more) ==
    /\ pc = "routerGroups"
    /\ more => pageNo < MaxPages
    /\ Replays("RouterGroups", pageNo, groups, more)
    /\ backing' = Record("RouterGroups", groups)
    /\ groupFetches' = groupFetches + 1
    /\ fetchOrder' = Noted("RouterGroups")
    /\ budget' = budget - Len(groups)
    /\ LET m == IndexPage(routerGroups, groups)
       IN  IF more
           THEN /\ pageNo' = pageNo + 1
                /\ routerGroups' = m
                /\ UNCHANGED <<pc, ui, cmdErr, exit>>
           ELSE /\ AfterGetRouterGroups(GetRouterGroupsRet(NoError, m))
                /\ UNCHANGED pageNo
    /\ UNCHANGED <<op, name, orgGuid, path, foundDomain, domain, result, requests, delivered>>
    /\ UNCHANGED <<domains, populateRouterGroups, routingApi, run, firstRun>>

\* ListRouterGroups, one page that fails: getRouterGroups returns an empty map
\* and the error.
FetchRouterGroupsErr(e) ==
    /\ pc = "routerGroups"
    /\ ReplaysFailure("RouterGroups", pageNo, e)
    /\ backing' = RecordFailure("RouterGroups", e)
    /\ groupFetches' = groupFetches + 1
    /\ fetchOrder' = Noted("RouterGroups")
    /\ AfterGetRouterGroups(GetRouterGroupsRet(TransportError(e), routerGroups))
    /\ UNCHANGED <<op, name, orgGuid, path, pageNo, foundDomain, domain, result, requests, delivered, budget>>
    /\ UNCHANGED <<domains, populateRouterGroups, routingApi, run, firstRun>>

\* The caller has the result; the repository is ready for the next call.
Return ==
    /\ pc = "done"
    /\ pc' = "idle"
    /\ op' = "none"
    /\ name' = NilName
    /\ orgGuid' = ""
    /\ path' = NoPath
    /\ pageNo' = 0
    /\ foundDomain' = FALSE
    /\ domain' = ZeroDomain
    /\ result' = Returned(ZeroDomain, NoError)
    /\ requests' = <<>>
    /\ delivered' = <<>>
    /\ budget' = MaxItems
    /\ domains' = <<>>
    /\ populateRouterGroups' = FALSE
    /\ routerGroups' = EmptyMap
    /\ ui' = <<>>
    /\ cmdErr' = NoError
    /\ exit' = ""
    /\ routingApi' = "untouched"
    /\ fetchOrder' = <<>>
    /\ groupFetches' = 0
    /\ run' = 0
    /\ backing' = NoBacking
    /\ firstRun' = NoOutcome

Next ==
    \/ \E n \in DomainNames : FindSharedByName(n)
    \/ \E n \in DomainNames : FindPrivateByName(n)
    \/ \E n \in DomainNames, g \in OrgGuids : FindByNameInOrg(n, g)
    \/ \E n \in DomainNames \cup {NilName}, g \in OrgGuids : FirstOrDefault(g, n)
    \/ \E items \in Pages, more \in BOOLEAN : FetchPageOk(items, more)
    \/ \E e \in TransportErrors : FetchPageErr(e)
    \/ Return

Spec == Init /\ [][Next]_vars

\* The `domains` command, one invocation after another.
ListNext ==
    \/ \E g \in OrgGuids : Execute(g)
    \/ \E items \in Pages, more \in BOOLEAN : FetchPageOk(items, more)
    \/ \E e \in TransportErrors : FetchPageErr(e)
    \/ \E ok \in BOOLEAN : RoutingApiRequirement(ok)
    \/ \E groups \in RouterGroupPages, more \in BOOLEAN : FetchRouterGroupsOk(groups, more)
    \/ \E e \in TransportErrors : FetchRouterGroupsErr(e)
    \/ Return

ListSpec == Init /\ [][ListNext]_vars

\* The `domains` command, with a record of what it is streamed.
RecordedNext ==
    \/ \E g \in OrgGuids : ExecuteRecorded(g)
    \/ \E items \in Pages, more \in BOOLEAN : FetchPageOk(items, more)
    \/ \E e \in TransportErrors : FetchPageErr(e)
    \/ \E ok \in BOOLEAN : RoutingApiRequirement(ok)
    \/ \E groups \in RouterGroupPages, more \in BOOLEAN : FetchRouterGroupsOk(groups, more)
    \/ \E e \in TransportErrors : FetchRouterGroupsErr(e)
    \/ Return

RecordedSpec == Init /\ [][RecordedNext]_vars

\* ListDomainsForOrg, called directly.
OrgWalkNext ==
    \/ \E n \in DomainNames \cup {NilName}, g \in OrgGuids : ListDomainsForOrg(g, n)
    \/ \E items \in Pages, more \in BOOLEAN : FetchPageOk(items, more)
    \/ \E e \in TransportErrors : FetchPageErr(e)
    \/ Return

OrgWalkSpec == Init /\ [][OrgWalkNext]_vars

\* A step of the running command: a fetch that returns or fails, the requirement.
Running ==
    \/ \E items \in Pages, more \in BOOLEAN : FetchPageOk(items, more)
    \/ \E e \in TransportErrors : FetchPageErr(e)
    \/ \E ok \in BOOLEAN : RoutingApiRequirement(ok)
    \/ \E groups \in RouterGroupPages, more \in BOOLEAN : FetchRouterGroupsOk(groups, more)
    \/ \E e \in TransportErrors : FetchRouterGroupsErr(e)

\* The `domains` command invoked twice in a row on unchanged collections.
TwiceNext ==
    \/ \E g \in OrgGuids : ExecuteFirst(g)
    \/ ExecuteAgain
    \/ \E items \in Pages, more \in BOOLEAN : FetchPageOk(items, more)
    \/ \E e \in TransportErrors : FetchPageErr(e)
    \/ \E ok \in BOOLEAN : RoutingApiRequirement(ok)
    \/ \E groups \in RouterGroupPages, more \in BOOLEAN : FetchRouterGroupsOk(groups, more)
    \/ \E e \in TransportErrors : FetchRouterGroupsErr(e)
    \/ Return

TwiceSpec == Init /\ [][TwiceNext]_vars

\* ------------------------------------------------------------ history views
\* The requests of this call for collection u, in order.
RequestsTo(u) == SelectSeq(requests, LAMBDA r : r.path.url = u)

RECURSIVE ItemsOf(_)
ItemsOf(reqs) == IF reqs = <<>> THEN <<>> ELSE Head(reqs).items \o ItemsOf(Tail(reqs))

\* What the server streamed of collection u, and of all collections, in order.
StreamedFrom(u) == ItemsOf(RequestsTo(u))

Streamed == ItemsOf(requests)

\* What the callback was handed of collection u.
DeliveredItems(u) ==
    LET d == SelectSeq(delivered, LAMBDA x : x.url = u)
    IN  [i \in 1..Len(d) |-> d[i].item]

\* The requests that failed.
Failures == {i \in DOMAIN requests : requests[i].err # NoError}

ResolvesInOrg == op = "FindByNameInOrg" \/ (op = "FirstOrDefault" /\ name # NilName)

ResolverCall == ResolvesInOrg \/ op \in {"FindSharedByName", "FindPrivateByName"}

SelectsDefault == op = "FirstOrDefault" /\ name = NilName

AllShared(s) == \A i \in DOMAIN s : s[i].Shared

\* The server keeps its scopes apart: the private collection streams private
\* domains only, the shared collection shared domains only.
WellScoped ==
    /\ \A i \in DOMAIN StreamedFrom("PrivateDomainsByOrgURL") : ~StreamedFrom("PrivateDomainsByOrgURL")[i].Shared
    /\ AllShared(StreamedFrom("SharedDomainsURL"))

RECURSIVE UpToFirstShared(_)
UpToFirstShared(s) ==
    IF s = <<>> THEN <<>>
    ELSE IF Head(s).Shared THEN <<Head(s)>> ELSE <<Head(s)>> \o UpToFirstShared(Tail(s))

\* ------------------------------------------------------------------ claims

C2_SharedFallback ==
    (/\ pc = "done"
     /\ ResolvesInOrg
     /\ Failures = {}
     /\ StreamedFrom("OrgDomainURL") = <<>>
     /\ StreamedFrom("SharedDomainURL") # <<>>
     /\ StreamedFrom("SharedDomainURL")[1].Shared) =>
        /\ result = Returned(StreamedFrom("SharedDomainURL")[1], NoError)
        /\ \A i \in DOMAIN requests :
              requests[i].path \in {OrgDomainURL(orgGuid, name), SharedDomainURL(name)}

C2_Witness ==
    /\ pc = "done"
    /\ op = "FindByNameInOrg"
    /\ Failures = {}
    /\ Len(RequestsTo("OrgDomainURL")) = 2
    /\ StreamedFrom("OrgDomainURL") = <<>>
    /\ Len(StreamedFrom("SharedDomainURL")) = 2
    /\ StreamedFrom("SharedDomainURL")[1].Shared
    /\ ~StreamedFrom("SharedDomainURL")[2].Shared
    /\ result = Returned(StreamedFrom("SharedDomainURL")[1], NoError)

\* C3: in FindByNameInOrg, when neither the org-scoped lookup nor the shared
\* lookup streams an item and no fetch fails, the call fails with
\* ModelNotFoundError("Domain", name) and returns the zero domain; both
\* collections were asked.
C3_NotFoundInBoth ==
    (pc = "done" /\ ResolvesInOrg /\ Failures = {} /\ Streamed = <<>>) =>
        /\ result = Returned(ZeroDomain, NewModelNotFoundError("Domain", name))
        /\ RequestsTo("OrgDomainURL") # <<>>
        /\ RequestsTo("SharedDomainURL") # <<>>

C3_Witness ==
    /\ pc = "done"
    /\ op = "FindByNameInOrg"
    /\ name = "b"
    /\ Failures = {}
    /\ Streamed = <<>>
    /\ Len(requests) = 4
    /\ result.err = NewModelNotFoundError("Domain", "b")

\* C4: in FindByNameInOrg, when the shared lookup is reached and the record it
\* returns has Shared = false, the call fails with
\* ModelNotFoundError("Domain", name); a call that reached the shared lookup
\* never returns a domain whose Shared flag is false.
C4_SharedCrossCheck ==
    /\ (/\ pc = "done"
        /\ ResolvesInOrg
        /\ StreamedFrom("SharedDomainURL") # <<>>
        /\ ~StreamedFrom("SharedDomainURL")[1].Shared) =>
           result = Returned(ZeroDomain, NewModelNotFoundError("Domain", name))
    /\ (/\ pc = "done"
        /\ ResolvesInOrg
        /\ RequestsTo("SharedDomainURL") # <<>>
        /\ result.err = NoError) =>
           result.domain.Shared

C4_Witness ==
    /\ pc = "done"
    /\ op = "FindByNameInOrg"
    /\ StreamedFrom("OrgDomainURL") = <<>>
    /\ StreamedFrom("SharedDomainURL") # <<>>
    /\ ~StreamedFrom("SharedDomainURL")[1].Shared
    /\ StreamedFrom("SharedDomainURL")[1].Name = name
    /\ result = Returned(ZeroDomain, NewModelNotFoundError("Domain", name))

\* C5: every transport failure of a page walk inside FindByNameInOrg (on the
\* org-scoped lookup, or on the shared lookup after the org-scoped one found
\* nothing) is the error the call returns.
C5_TransportErrorPropagates ==
    (pc = "done" /\ ResolvesInOrg) =>
        \A i \in Failures : result.err = requests[i].err

\* C6: in every resolver call (FindSharedByName, FindPrivateByName, each
\* lookup of FindByNameInOrg) the callback stops the walk at the first item it
\* receives: a lookup delivers at most one item, the first of its page, and
\* after a page that held an item no further page of that collection is
\* requested.
C6_EarlyTermination ==
    ResolverCall =>
        /\ \A i \in DOMAIN requests :
              requests[i].items # <<>> =>
                 \A j \in DOMAIN requests : j > i => requests[j].path # requests[i].path
        /\ \A u \in {"OrgDomainURL", "SharedDomainURL", "PrivateDomainURL"} :
              DeliveredItems(u) =
                 IF StreamedFrom(u) = <<>> THEN <<>> ELSE <<StreamedFrom(u)[1]>>

C6_Witness ==
    /\ pc = "done"
    /\ op = "FindPrivateByName"
    /\ Len(requests) = 1
    /\ Len(requests[1].items) = 2
    /\ requests[1].more
    /\ Len(delivered) = 1
    /\ result = Returned(requests[1].items[1], NoError)

\* C7 as stated: FirstOrDefault with no name, when every visible domain is
\* shared and there is one, returns the last shared domain in stream order.
\* (Stated for a server whose private collection holds private domains only.)
C7_AllSharedYieldsLast ==
    (/\ pc = "done"
     /\ SelectsDefault
     /\ Failures = {}
     /\ WellScoped
     /\ Streamed # <<>>
     /\ AllShared(Streamed)) =>
        result = Returned(Streamed[Len(Streamed)], NoError)

\* C7 amended: FirstOrDefault with no name, when every domain the server
\* streamed is shared and there is one, stops the walk of each collection at
\* its first item and returns the last domain delivered: the first item of the
\* shared collection if it streamed one, else the first item of the private
\* collection.
C7_AllSharedYieldsFirst ==
    (pc = "done" /\ SelectsDefault /\ Streamed # <<>> /\ AllShared(Streamed)) =>
        /\ \A u \in {"PrivateDomainsByOrgURL", "SharedDomainsURL"} :
              DeliveredItems(u) =
                 IF StreamedFrom(u) = <<>> THEN <<>> ELSE <<StreamedFrom(u)[1]>>
        /\ result = Returned(IF StreamedFrom("SharedDomainsURL") # <<>>
                             THEN StreamedFrom("SharedDomainsURL")[1]
                             ELSE StreamedFrom("PrivateDomainsByOrgURL")[1], NoError)

C7_Witness ==
    /\ pc = "done"
    /\ SelectsDefault
    /\ Failures = {}
    /\ StreamedFrom("PrivateDomainsByOrgURL") = <<>>
    /\ Len(StreamedFrom("SharedDomainsURL")) = 2
    /\ AllShared(Streamed)
    /\ Streamed[1].Name = "a"
    /\ Streamed[2].Name = "b"
    /\ result.domain.Name = "a"

\* C8 as stated: FirstOrDefault with no name, when a private domain is visible,
\* returns the first private domain in stream order.
\* (Stated for a server whose private collection holds private domains only
\* and whose shared collection holds shared domains only.)
C8_FirstPrivateWins ==
    (pc = "done" /\ SelectsDefault /\ Failures = {} /\ WellScoped /\ ~AllShared(Streamed)) =>
        LET k == CHOOSE i \in DOMAIN Streamed :
                    ~Streamed[i].Shared /\ \A j \in 1..(i - 1) : Streamed[j].Shared
        IN  result = Returned(Streamed[k], NoError)

\* C8 amended: FirstOrDefault with no name, when the server streamed a private
\* domain: a private domain never ends the walk.  Each collection is delivered
\* up to and including its first shared domain (to its end if it has none), the
\* private collection first, and the result is the last domain delivered.
C8_PrivateDoesNotStop ==
    (pc = "done" /\ SelectsDefault /\ ~AllShared(Streamed)) =>
        /\ \A u \in {"PrivateDomainsByOrgURL", "SharedDomainsURL"} :
              DeliveredItems(u) = UpToFirstShared(StreamedFrom(u))
        /\ delivered # <<>>
        /\ result = Returned(delivered[Len(delivered)].item, NoError)

C8_Witness ==
    /\ pc = "done"
    /\ SelectsDefault
    /\ Failures = {}
    /\ Len(StreamedFrom("PrivateDomainsByOrgURL")) = 1
    /\ ~StreamedFrom("PrivateDomainsByOrgURL")[1].Shared
    /\ Len(StreamedFrom("SharedDomainsURL")) = 2
    /\ AllShared(StreamedFrom("SharedDomainsURL"))
    /\ Len(delivered) = 2
    /\ result = Returned(StreamedFrom("SharedDomainsURL")[1], NoError)

\* C9: FirstOrDefault with no name, when the walk of the organization's
\* domains ends without error and delivers no item, fails with "Could not find
\* a default domain" and returns the zero domain.
C9_EmptyYieldsNoDefault ==
    (pc = "done" /\ SelectsDefault /\ Failures = {} /\ delivered = <<>>) =>
        /\ result = Returned(ZeroDomain, NoDefaultDomainError)
        /\ RequestsTo("PrivateDomainsByOrgURL") # <<>>
        /\ RequestsTo("SharedDomainsURL") # <<>>

C9_Witness ==
    /\ pc = "done"
    /\ SelectsDefault
    /\ Failures = {}
    /\ delivered = <<>>
    /\ Len(requests) = 3
    /\ result.err = NoDefaultDomainError

\* C10: FirstOrDefault with no name, when a page fetch of the walk fails,
\* returns that transport error and the zero domain, whatever candidate was
\* recorded before the failure.
C10_FailureAbortsDefault ==
    (pc = "done" /\ SelectsDefault) =>
        \A i \in Failures : result = Returned(ZeroDomain, requests[i].err)

\* ------------------------------------------------------ views of a listing
\* An invocation of the command has ended.
Listed == op = "ListDomains" /\ pc = "done"

\* The command wrote an output of kind k.
Wrote(k) == \E i \in DOMAIN ui : ui[i].kind = k

\* The command wrote the failure t.
WroteFailure(t) == \E i \in DOMAIN ui : ui[i].kind = "Failed" /\ ui[i].text = t

LastOut == ui[Len(ui)]

\* The collected domains that name a router group, by position.
Referring == {i \in DOMAIN domains : domains[i].Shared /\ domains[i].RouterGroupGuid # ""}

\* Those whose router group the index lacks.
Dangling == {i \in Referring : domains[i].RouterGroupGuid \notin DOMAIN routerGroups}

\* The router-group walk of this invocation ran to its end.
IndexBuilt == groupFetches > 0 /\ cmdErr = NoError

\* C11: when the router-group index lacks a group that a collected shared
\* domain names, the invocation fails with the invalid-router-group error
\* naming the first such id in collection order, and writes no table.
C11_ValidationGate ==
    (Listed /\ IndexBuilt /\ Dangling # {}) =>
        LET first == CHOOSE i \in Dangling : \A j \in Dangling : i <= j
        IN  /\ exit = "panicked"
            /\ LastOut = Failed("Invalid router group guid:", domains[first].RouterGroupGuid)
            /\ ~Wrote("Table")

\* Two domains name different missing groups and the first one is reported.
C11_Witness ==
    /\ Listed /\ IndexBuilt
    /\ \E i, j \in Dangling : i < j /\ domains[i].RouterGroupGuid # domains[j].RouterGroupGuid
    /\ LastOut.kind = "Failed"
    /\ LastOut.arg = domains[CHOOSE i \in Dangling : \A j \in Dangling : i <= j].RouterGroupGuid

\* The rows of the table the command printed.
Rows == LastOut.rows

\* The ways to place n collected domains on n rows.
Placements(n) == {f \in [1..n -> 1..n] : \A i, j \in 1..n : i # j => f[i] # f[j]}

\* Row r shows domain d: its name and its status.
Shows(r, d) == r[1] = d.Name /\ r[2] = (IF d.Shared THEN "shared" ELSE "owned")

\* C12: the printed table is a stable partition of the collected domains:
\* each domain has one row, each row one domain, every shared domain's row is
\* above every other domain's row, and within the shared domains and within
\* the others the rows keep the collection order.
C12_StablePartition ==
    (Listed /\ LastOut.kind = "Table") =>
        /\ Len(Rows) = Len(domains)
        /\ \E f \in Placements(Len(domains)) :
              /\ \A i \in DOMAIN domains : Shows(Rows[f[i]], domains[i])
              /\ \A i, j \in DOMAIN domains :
                    /\ (domains[i].Shared /\ ~domains[j].Shared) => f[i] < f[j]
                    /\ (domains[i].Shared = domains[j].Shared /\ i < j) => f[i] < f[j]

\* [private a, shared, private b] is printed as [shared, a, b].
C12_Witness ==
    /\ Listed /\ LastOut.kind = "Table"
    /\ Len(domains) = 3
    /\ ~domains[1].Shared /\ domains[1].Name = "a"
    /\ domains[2].Shared
    /\ ~domains[3].Shared /\ domains[3].Name = "b"
    /\ Rows[1][1] = domains[2].Name /\ Rows[1][2] = "shared"
    /\ Rows[2] = <<"a", "owned">>
    /\ Rows[3] = <<"b", "owned">>

\* C13: an invocation whose domain walk succeeded without streaming a domain
\* ends with "No domains found": it writes no failure and no table, and the
\* routing API is not touched.
C13_EmptyListing ==
    (Listed /\ cmdErr = NoError /\ budget = MaxItems) =>
        /\ LastOut = Say("No domains found")
        /\ exit = "returned"
        /\ ~Wrote("Failed")
        /\ ~Wrote("Table")
        /\ routingApi = "untouched"
        /\ groupFetches = 0

C13_Witness ==
    /\ Listed
    /\ cmdErr = NoError
    /\ budget = MaxItems
    /\ path.url = "SharedDomainsURL"
    /\ ui = <<Say("Getting domains in org"), Say("No domains found")>>

\* The invocation has run the routing API requirement or asked for router groups.
Touched == routingApi # "untouched" \/ groupFetches > 0

\* C14: an invocation touches the routing API exactly if a collected domain
\* is shared and names a router group; one that collected domains none of
\* which does prints them all and fails at nothing.
C14_RoutingApiOnlyIfNeeded ==
    Listed =>
        /\ Touched <=> Referring # {}
        /\ (cmdErr = NoError /\ domains # <<>> /\ Referring = {}) =>
              /\ LastOut.kind = "Table"
              /\ Len(Rows) = Len(domains)
              /\ exit = "returned"
              /\ ~Wrote("Failed")

\* A private domain names a router group, a shared one names none: the
\* table is printed and the routing API is left alone.
C14_Witness ==
    /\ Listed
    /\ \E i \in DOMAIN domains : ~domains[i].Shared /\ domains[i].RouterGroupGuid # ""
    /\ \E i \in DOMAIN domains : domains[i].Shared /\ domains[i].RouterGroupGuid = ""
    /\ ~Touched
    /\ LastOut.kind = "Table"
    /\ Len(Rows) = Len(domains)

\* The positions in fetchOrder of the router-group collection, and of the others.
GroupWalks == {i \in DOMAIN fetchOrder : fetchOrder[i] = "RouterGroups"}

DomainWalks == DOMAIN fetchOrder \ GroupWalks

\* C15: in an invocation every request for a page of router groups comes
\* after every request for a page of domains, and by then both domain
\* collections have been walked.
C15_DomainsBeforeRouterGroups ==
    (op = "ListDomains" /\ groupFetches > 0) =>
        /\ pc # "walking"
        /\ GroupWalks # {}
        /\ \A i \in DomainWalks, j \in GroupWalks : i < j
        /\ fetchOrder = <<"PrivateDomainsByOrgURL", "SharedDomainsURL", "RouterGroups">>

\* Two pages of router groups have been asked for.
C15_Witness ==
    /\ Listed
    /\ groupFetches = 2
    /\ Len(domains) >= 2
    /\ fetchOrder[Len(fetchOrder)] = "RouterGroups"

\* The router-group walk of this invocation failed.
RouterGroupWalkFailed == groupFetches > 0 /\ cmdErr # NoError

\* C16: when the router-group walk fails, the invocation fails with "Failed
\* fetching router groups" and the walk's error; it reports no invalid
\* router group and prints no table, though it has collected the domains.
C16_RouterGroupFailure ==
    (Listed /\ RouterGroupWalkFailed) =>
        /\ cmdErr.kind = "TransportError"
        /\ LastOut = Failed("Failed fetching router groups.", cmdErr.id)
        /\ ~WroteFailure("Invalid router group guid:")
        /\ ~Wrote("Table")
        /\ domains # <<>>
        /\ Referring # {}

\* The second page of router groups fails after the first was indexed.
C16_Witness ==
    /\ Listed
    /\ groupFetches = 2
    /\ budget < MaxItems - Len(domains)
    /\ cmdErr = TransportError("decode failure")
    /\ LastOut.arg = "decode failure"

\* The domain walk of this invocation failed.
DomainWalkFailed == groupFetches = 0 /\ cmdErr # NoError

\* C17: when the domain walk fails, the invocation fails with "Failed
\* fetching domains" and the walk's error; the domains collected before the
\* failure are dropped, neither a table nor "No domains found" is written,
\* and the routing API is not touched.
C17_DomainFailure ==
    (Listed /\ DomainWalkFailed) =>
        /\ cmdErr.kind = "TransportError"
        /\ ui = <<Say("Getting domains in org"), Failed("Failed fetching domains.", cmdErr.id)>>
        /\ exit = "panicked"
        /\ domains = <<>>
        /\ ~populateRouterGroups
        /\ routingApi = "untouched"
        /\ GroupWalks = {}

\* The walk fails in the shared collection after domains were collected.
C17_Witness ==
    /\ Listed
    /\ DomainWalkFailed
    /\ budget < MaxItems
    /\ fetchOrder = <<"PrivateDomainsByOrgURL", "SharedDomainsURL">>
    /\ LastOut = Failed("Failed fetching domains.", "network failure")

\* C18: when the routing API requirement is run and is not met, the
\* invocation fails with the routing-API-missing error; no page of router
\* groups is asked for and no table is written.
C18_RoutingApiMissing ==
    (Listed /\ routingApi = "missing") =>
        /\ Referring # {}
        /\ LastOut = Failed("Routing API URI missing.", "")
        /\ exit = "panicked"
        /\ groupFetches = 0
        /\ GroupWalks = {}
        /\ ~Wrote("Table")

\* A shared domain names a router group, a private one was collected too,
\* and the requirement is not met.
C18_Witness ==
    /\ Listed
    /\ routingApi = "missing"
    /\ \E i \in DOMAIN domains : ~domains[i].Shared
    /\ \E i \in DOMAIN domains : domains[i].Shared /\ domains[i].RouterGroupGuid = "rg1"
    /\ LastOut.kind = "Failed"
    /\ Len(ui) = 2

\* Row r has the annotation due to domain d: the type of the indexed router
\* group with d's router group id if d is shared and names one, else none.
Annotated(r, d) ==
    IF d.Shared /\ d.RouterGroupGuid # ""
    THEN /\ Len(r) = 3
         /\ \E g \in DOMAIN routerGroups :
               /\ routerGroups[g].Guid = d.RouterGroupGuid
               /\ r[3] = routerGroups[g].Type
    ELSE Len(r) = 2

\* C19: in the printed table the row of a shared domain that names a router
\* group ends with the type of the indexed group of that id; the row of any
\* other domain, shared or not, has no type.
C19_Annotation ==
    (Listed /\ LastOut.kind = "Table") =>
        /\ Len(Rows) = Len(domains)
        /\ \E f \in Placements(Len(domains)) :
              /\ \A i, j \in DOMAIN domains :
                    /\ (domains[i].Shared /\ ~domains[j].Shared) => f[i] < f[j]
                    /\ (domains[i].Shared = domains[j].Shared /\ i < j) => f[i] < f[j]
              /\ \A i \in DOMAIN domains :
                    Shows(Rows[f[i]], domains[i]) /\ Annotated(Rows[f[i]], domains[i])

\* A shared and a private domain name the same router group: only the
\* shared one's row has its type.
C19_Witness ==
    /\ Listed /\ LastOut.kind = "Table"
    /\ Len(domains) = 2
    /\ ~domains[1].Shared /\ domains[1].RouterGroupGuid = "rg1"
    /\ domains[2].Shared /\ domains[2].RouterGroupGuid = "rg1"
    /\ routerGroups["rg1"].Type = "tcp"
    /\ Rows = << <<domains[2].Name, "shared", "tcp">>, <<domains[1].Name, "owned">> >>

\* C20: of two invocations in a row for the same organization, served the
\* same domains, router groups and failures, the second writes what the
\* first wrote and ends as the first ended.
C20_Idempotence ==
    (Listed /\ run = 2) => (ui = firstRun.ui /\ exit = firstRun.exit)

\* Both invocations printed the same table of a typed shared domain.
C20_Witness ==
    /\ Listed /\ run = 2
    /\ firstRun.exit = "returned"
    /\ LastOut.kind = "Table"
    /\ \E i \in DOMAIN Rows : Len(Rows[i]) = 3 /\ Rows[i][3] = "http"
    /\ firstRun.ui = ui

\* Where an invocation stands.
Phase ==
    CASE pc = "idle" -> "Idle"
      [] pc = "walking" -> "Fetching(domains)"
      [] pc \in {"requirement", "routerGroups"} -> "FetchingGroups"
      [] pc = "done" /\ exit = "returned" -> "Done"
      [] OTHER -> "Failed"

\* The steps of an invocation; validation and the table are part of the step
\* that ends it.
PhaseSteps ==
    {<<"Idle", "Fetching(domains)">>,
     <<"Fetching(domains)", "Fetching(domains)">>, <<"Fetching(domains)", "FetchingGroups">>,
     <<"Fetching(domains)", "Done">>, <<"Fetching(domains)", "Failed">>,
     <<"FetchingGroups", "FetchingGroups">>, <<"FetchingGroups", "Done">>, <<"FetchingGroups", "Failed">>,
     <<"Done", "Idle">>, <<"Failed", "Idle">>}

\* How many more steps an invocation can take at most.
StepsLeft ==
    CASE pc = "walking" /\ path.url = "PrivateDomainsByOrgURL" -> (MaxPages - pageNo + 1) + 2 * MaxPages + 1
      [] pc = "walking" -> (MaxPages - pageNo + 1) + MaxPages + 1
      [] pc = "requirement" -> MaxPages + 1
      [] pc = "routerGroups" -> MaxPages - pageNo + 1
      [] OTHER -> 0

\* The outputs that end an invocation.
TerminalOuts ==
    {i \in DOMAIN ui : ui[i].kind \in {"Table", "Failed"} \/ ui[i] = Say("No domains found")}

\* C21: an invocation steps only from Idle to the domain walk, from there on
\* to the router groups or to its end, and from the router groups to its end;
\* pages are asked for and output is written only on these steps, and the end
\* is either Done or Failed with one closing output.  With at most MaxPages
\* pages to a collection every invocation reaches its end: until then a step
\* is always possible, and each step brings the end nearer.
C21_StateMachine ==
    /\ [](op = "ListDomains" /\ pc # "done" => ENABLED Running)
    /\ [][op = "ListDomains" /\ pc # "done" => StepsLeft' < StepsLeft]_vars
    /\ [][op' = "ListDomains" \/ op = "ListDomains" =>
            /\ <<Phase, Phase'>> \in PhaseSteps
            /\ (Len(fetchOrder') > Len(fetchOrder) \/ groupFetches' > groupFetches \/ budget' < budget) =>
                  Phase \in {"Fetching(domains)", "FetchingGroups"}
            /\ Phase \in {"Done", "Failed"} => (ui' = <<>> /\ fetchOrder' = <<>> /\ groupFetches' = 0)
            /\ Phase' \in {"Done", "Failed"} =>
                  (Cardinality(TerminalOuts') = 1 /\ TerminalOuts' = {Len(ui')})
            /\ Phase' \notin {"Done", "Failed", "Idle"} => (TerminalOuts' = {} /\ exit' = "")]_vars

\* An invocation that went through the router groups has printed its table.
C21_Witness ==
    /\ Listed
    /\ Phase = "Done"
    /\ groupFetches = 2
    /\ fetchOrder = <<"PrivateDomainsByOrgURL", "SharedDomainsURL", "RouterGroups">>
    /\ LastOut.kind = "Table"

\* FindSharedByName or FindPrivateByName has returned.
LookedUp == pc = "done" /\ op \in {"FindSharedByName", "FindPrivateByName"}

\* C22: FindSharedByName and FindPrivateByName return the first item their
\* collection streamed, whatever was streamed after it, and return
\* ModelNotFoundError("Domain", name) exactly when no fetch failed and
\* nothing was streamed.
C22_FirstMatch ==
    LookedUp =>
        /\ (Failures = {} /\ Streamed # <<>>) => result = Returned(Streamed[1], NoError)
        /\ result.err = NewModelNotFoundError("Domain", name) <=> (Failures = {} /\ Streamed = <<>>)

\* The page with the first item held a different second item.
C22_Witness ==
    /\ LookedUp
    /\ Len(requests) = 2
    /\ requests[1].items = <<>>
    /\ Len(Streamed) = 2
    /\ Streamed[1] # Streamed[2]
    /\ result = Returned(Streamed[1], NoError)

\* ListDomainsForOrg runs or has returned.
OrgWalk == op = "ListDomainsForOrg"

\* The callback has returned false: it was handed a domain of the name it
\* looks for.
CbStopped == \E i \in DOMAIN delivered : delivered[i].item.Name = name

\* C23: in ListDomainsForOrg, once the callback has returned false no page
\* of the private or of the shared collection is requested and the callback
\* is not invoked again.
C23_StopSignal ==
    [][(OrgWalk /\ CbStopped /\ pc # "done") => (requests' = requests /\ delivered' = delivered)]_vars

\* The requests of the call so far that went to the collection u.
Asked(u) == {i \in DOMAIN requests : requests[i].path.url = u}

\* The i-th request ended its walk: the last page, or a page with a domain
\* on which the callback returned false.
EndedWalk(i) ==
    \/ ~requests[i].more
    \/ \E k \in DOMAIN requests[i].items : requests[i].items[k].Name = name

\* C25: ListDomainsForOrg asks for the private domains of the org first and
\* for the shared domains only when the private walk has returned without an
\* error; every private item is delivered before any shared one; when the
\* private walk fails, that error is returned and the shared collection is
\* never asked for.
C25_PrivateThenShared ==
    OrgWalk =>
        /\ \A i \in Asked("PrivateDomainsByOrgURL"), j \in Asked("SharedDomainsURL") :
               /\ i < j
               /\ requests[i].err = NoError
               /\ requests[i].path.org = orgGuid
        /\ \A j \in Asked("SharedDomainsURL") :
               /\ j > 1
               /\ requests[j].page = 1 => requests[j - 1].path.url = "PrivateDomainsByOrgURL" /\ EndedWalk(j - 1)
        /\ \A i, j \in DOMAIN delivered :
               (delivered[i].url = "PrivateDomainsByOrgURL" /\ delivered[j].url = "SharedDomainsURL") => i < j
        /\ \A i \in Asked("PrivateDomainsByOrgURL") :
               requests[i].err # NoError =>
                   /\ pc = "done"
                   /\ result.err = requests[i].err
                   /\ Asked("SharedDomainsURL") = {}
                   /\ i = Len(requests)

\* Both walks of one call delivered something.
C25_Witness ==
    /\ OrgWalk
    /\ pc = "done"
    /\ \E i, j \in DOMAIN delivered :
           delivered[i].url = "PrivateDomainsByOrgURL" /\ delivered[j].url = "SharedDomainsURL"
    /\ Len(requests) > 2

\* The router groups s, each guid with the last group of that guid in s.
LastOfEach(s) ==
    [g \in {s[i].Guid : i \in DOMAIN s} |->
        s[CHOOSE i \in DOMAIN s : s[i].Guid = g /\ \A j \in DOMAIN s : s[j].Guid = g => j <= i]]

\* getRouterGroups has asked for a page in this invocation.
WalkedGroups == op = "ListDomains" /\ run = 1 /\ groupFetches > 0

\* C24: getRouterGroups walks the whole collection of router groups, its
\* callback never stopping the walk; the index it returns has the guids of
\* all streamed groups, each with the last group streamed under that guid;
\* when the walk fails it returns the error and an empty index.
C24_RouterGroupIndex ==
    WalkedGroups =>
        /\ pc \in {"routerGroups", "done"}
        /\ pc = "routerGroups" =>
               /\ routerGroups = LastOfEach(backing.RouterGroups)
               /\ groupFetches < MaxPages
               /\ backing.failAt = ""
        /\ (pc = "done" /\ backing.failAt = "") =>
               /\ routerGroups = LastOfEach(backing.RouterGroups)
               /\ cmdErr = NoError
        /\ (pc = "done" /\ backing.failAt # "") =>
               /\ backing.failAt = "RouterGroups"
               /\ routerGroups = EmptyMap
               /\ cmdErr = TransportError(backing.err)

\* Two pages of router groups were walked, and a later group replaced an
\* earlier one of the same guid.
C24_Witness ==
    /\ WalkedGroups
    /\ pc = "done"
    /\ groupFetches = 2
    /\ cmdErr = NoError
    /\ Len(backing.RouterGroups) = 2
    /\ backing.RouterGroups[1].Guid = backing.RouterGroups[2].Guid
    /\ backing.RouterGroups[1].Type # backing.RouterGroups[2].Type

\* One of the four lookups has returned.
LookupReturned ==
    pc = "done" /\ op \in {"FindByNameInOrg", "FindSharedByName", "FindPrivateByName", "FirstOrDefault"}

\* C26: whenever FindByNameInOrg, FindSharedByName, FindPrivateByName or
\* FirstOrDefault returns an error, the domain it returns is the zero-value
\* DomainFields.
C26_ZeroDomainOnError ==
    (LookupReturned /\ result.err # NoError) => result.domain = ZeroDomain

\* The shared lookup of FindByNameInOrg found a domain that is not shared:
\* the call has a domain at hand and returns an error.
C26_Witness ==
    /\ LookupReturned
    /\ Len(requests) = 2
    /\ requests[2].path.url = "SharedDomainURL"
    /\ requests[2].items # <<>>
    /\ requests[2].items[1] # ZeroDomain
    /\ ~requests[2].items[1].Shared
    /\ result = Returned(ZeroDomain, NewModelNotFoundError("Domain", name))

====
